---------------------------- MODULE Spec2Model ----------------------------
(***************************************************************************)
(* A model of the rules engine of the "monster" text-adventure world: the  *)
(* concealment engine (gamerules/hiding.py: hide, reveal, search) and the  *)
(* combat/health engine (typeclasses/characters.py: at_weapon_hit, die,    *)
(* health_msg, self_health_msg).                                           *)
(*                                                                         *)
(* Every handler is one atomic action (the game server runs one command at *)
(* a time).  The variable "last" records what the last call did: the       *)
(* messages it sent, in order, the exception that left it, if any, and the *)
(* state it started from.                                                  *)
(***************************************************************************)
EXTENDS Integers, Sequences, FiniteSets, TLC

(***************************************************************************)
(* The world: two player characters, one Mob, one inert object, three      *)
(* rooms (one of each room kind).                                          *)
(***************************************************************************)
Characters == {"c1", "c2"}
Mobs == {"m1"}
Things == {"o1"}
Rooms == {"Limbo", "Alley", "Vault"}

\* gamerules.room_kind.RoomKind, read by hide() as room.db.room_kind
room_kind(room) ==
  CASE room = "Limbo" -> "NORMAL"
    [] room = "Alley" -> "HARD_TO_HIDE"
    [] room = "Vault" -> "NO_HIDE"

\* where the objects that never move stand
FixedLocation(obj) ==
  CASE obj = "m1" -> "Alley"
    [] obj = "o1" -> "Limbo"

\* hiding.py:5
MAX_HIDE == 15

\* characters.py:38, the health a Character is created with
SpawnHealth == 1000

\* characters.py:65, the health die() resets to
RespawnHealth == 200

\* actor.max_health(): the capacity of the health pool; a Character is
\* created at full health
max_health(actor) == SpawnHealth

\* obj.ndb.hiding reads None until something assigns it; None is written -1
\* here, outside the range of every value the code assigns
None == -1

(***************************************************************************)
(* Bounds of the model.                                                    *)
(***************************************************************************)
\* at_weapon_hit is not called when it would raise health above this
HealthCap == 1333
\* the tier probes take each threshold of the table -Margin..+Margin
Margin == 1

\* damage amounts an attack delivers (negative: a malformed amount); from
\* 1000 they reach health 0 by an exact and by an excessive hit, health 1,
\* and health above 1000
Damages == {-333, 0, 333, 999}
\* the amounts of the hits when both engines run together
WorldDamages == {0, 1000}
\* the amount of the one hit a tier probe applies to a new character
ScenarioDamages == {150}
\* the amounts of the calls in flight at once
RaceDamages == {333, 1000}
\* the amounts Mob.gain_health is called with: losses and a gain
MobAmounts == {-999, -333, 333}
\* values MIN_HEALTH may have: below 0, 0 and above 0
MinHealths == {-500, 0, 1}
\* outcomes of random.randint(0, 100): its least and greatest value and the
\* values on each side of the test made on it (> 20 and < 25 in hide,
\* < 20 and < 40 in search)
HardRolls == {0, 20, 21, 100}
HideRolls == {0, 24, 25, 100}
SearchRolls == {0, 19, 20, 39, 40, 100}
Weapons == {"axe"}

VARIABLES health, hiding, location, last, probe, inflight, lvl, mob, gold, shop

vars == <<health, hiding, location, last, probe, inflight, lvl, mob, gold, shop>>

\* actor.level(): the character's level, an integer >= 1
level(actor) == lvl[actor]

\* the levels of the two characters: a beginner and its elder
Levels == [c1 |-> 1, c2 |-> 2]
\* and with a veteran whose cap, level + 1, is MAX_HIDE
VeteranLevels == [c1 |-> 1, c2 |-> 14]

Max(a, b) == IF a >= b THEN a ELSE b

Min(a, b) == IF a <= b THEN a ELSE b

(***************************************************************************)
(* Messaging.  An event of a call is a record: a message to one object     *)
(* (obj.msg), a message to a room's contents (msg_contents), an assignment *)
(* to db.health, a call of die(), a move_to or a raised exception.         *)
(***************************************************************************)
Ev(kind, to, text, val) == [kind |-> kind, to |-> to, text |-> text, val |-> val]

\* obj.msg(text)
Msg(obj, text) == Ev("msg", {obj}, text, 0)

\* room.contents: everything located in the room
contents(room) ==
  {c \in Characters : location[c] = room}
    \cup {o \in Mobs \cup Things : FixedLocation(o) = room}

\* obj.location
location_of(obj) == IF obj \in Characters THEN location[obj] ELSE FixedLocation(obj)

\* msg_contents without its exclude
msg_contents_all(room, text, exclude) == Ev("msg_contents", contents(room), text, 0)

\* room.msg_contents(text, exclude=...)
msg_contents(room, text, exclude) == Ev("msg_contents", contents(room) \ exclude, text, 0)

\* the arguments of a call and the random numbers it drew (None: not drawn)
NoArgs == [attacker |-> "none", weapon |-> "none", damage |-> 0,
           roll1 |-> None, roll2 |-> None, rand |-> None,
           amount |-> 0, obj |-> "none", source |-> "none", who |-> "none"]

\* the record of a call: the handler, the object it ran on, its arguments,
\* the exception that left it ("none": it returned), its events in order, and
\* the state it started from
Call(op, self, args, err, events) ==
  [op |-> op, self |-> self, args |-> args, err |-> err, events |-> events,
   before |-> [health |-> health, hiding |-> hiding, location |-> location,
               mob |-> mob, gold |-> gold, shop |-> shop]]

(***************************************************************************)
(* Condition tiers.                                                        *)
(***************************************************************************)
\* self_health_msg with the texts of its last two tests exchanged
swapped_self_health_msg(h) ==
  IF h >= 1700 THEN "You are in ultimate health."
  ELSE IF h > 1400 THEN "You are in incredible health."
  ELSE IF h > 1200 THEN "You are in extraordinary health."
  ELSE IF h > 1000 THEN "You are in tremendous health."
  ELSE IF h > 850 THEN "You are in superior condition."
  ELSE IF h > 700 THEN "You are in exceptional health."
  ELSE IF h > 500 THEN "You are in good health."
  ELSE IF h > 350 THEN "You feel a little bit dazed."
  ELSE IF h > 200 THEN "You have some minor cuts and abrasions."
  ELSE IF h > 100 THEN "You are suffering from some serious wounds."
  ELSE IF h > 50 THEN "You are near death."
  ELSE IF h > 1 THEN "You are in critical condition."
  ELSE "You are dead."

\* self_health_msg with the test of the fifth row made inclusive
inclusive_self_health_msg(h) ==
  IF h >= 1700 THEN "You are in ultimate health."
  ELSE IF h > 1400 THEN "You are in incredible health."
  ELSE IF h > 1200 THEN "You are in extraordinary health."
  ELSE IF h > 1000 THEN "You are in tremendous health."
  ELSE IF h >= 850 THEN "You are in superior condition."
  ELSE IF h > 700 THEN "You are in exceptional health."
  ELSE IF h > 500 THEN "You are in good health."
  ELSE IF h > 350 THEN "You feel a little bit dazed."
  ELSE IF h > 200 THEN "You have some minor cuts and abrasions."
  ELSE IF h > 100 THEN "You are suffering from some serious wounds."
  ELSE IF h > 50 THEN "You are in critical condition."
  ELSE IF h > 1 THEN "You are near death."
  ELSE "You are dead."

\* Character.self_health_msg, of health h
self_health_msg(h) ==
  IF h >= 1700 THEN "You are in ultimate health."
  ELSE IF h > 1400 THEN "You are in incredible health."
  ELSE IF h > 1200 THEN "You are in extraordinary health."
  ELSE IF h > 1000 THEN "You are in tremendous health."
  ELSE IF h > 850 THEN "You are in superior condition."
  ELSE IF h > 700 THEN "You are in exceptional health."
  ELSE IF h > 500 THEN "You are in good health."
  ELSE IF h > 350 THEN "You feel a little bit dazed."
  ELSE IF h > 200 THEN "You have some minor cuts and abrasions."
  ELSE IF h > 100 THEN "You are suffering from some serious wounds."
  ELSE IF h > 50 THEN "You are in critical condition."
  ELSE IF h > 1 THEN "You are near death."
  ELSE "You are dead."

\* Character.health_msg, of the character's key and health h
health_msg(key, h) ==
  IF h >= 1700 THEN key \o " is in ultimate health."
  ELSE IF h > 1400 THEN key \o " is in incredible health."
  ELSE IF h > 1200 THEN key \o " is in extraordinary health."
  ELSE IF h > 1000 THEN key \o " is in tremendous health."
  ELSE IF h > 850 THEN key \o " is in superior condition."
  ELSE IF h > 700 THEN key \o " is in exceptional health."
  ELSE IF h > 500 THEN key \o " is in good health."
  ELSE IF h > 350 THEN key \o " looks a little bit dazed."
  ELSE IF h > 200 THEN key \o " has some minor wounds."
  ELSE IF h > 100 THEN key \o " is suffering from some serious wounds."
  ELSE IF h > 50 THEN key \o " is in critical condition."
  ELSE IF h > 1 THEN key \o " is near death."
  ELSE key \o " is dead."

(***************************************************************************)
(* Combat.                                                                 *)
(***************************************************************************)
\* the names bound in the module typeclasses/characters.py: its imports and
\* its one class
ModuleGlobals == {"DefaultCharacter", "cmdhandler", "target_msg", "Character"}

\* Character.die, entered with health h in room loc.  The set of its possible
\* results: the health and location it leaves, the exception that leaves it
\* and its events.  Line 62 reads the global name search_object.
die(self, h, loc) ==
  IF "search_object" \notin ModuleGlobals
  THEN {[health |-> h, location |-> loc, err |-> "NameError",
         events |-> <<Ev("die", {self}, "", 0),
                      Ev("raise", {self}, "NameError: search_object", 0)>>]}
  ELSE {[health |-> RespawnHealth,
         location |-> IF the_void THEN "Limbo" ELSE loc,
         err |-> "none",
         events |-> <<Ev("die", {self}, "", 0)>>
                    \o (IF the_void THEN <<Ev("move_to", {self}, "Limbo", 0)>> ELSE <<>>)
                    \o <<Ev("set_health", {self}, "", RespawnHealth)>>]
        : the_void \in BOOLEAN}

\* commands.combat.target_msg(attacker.key, weapon.key, damage): the text of
\* the strike notification
target_msg(attacker, weapon, damage) ==
  "target_msg(" \o attacker \o ", " \o weapon \o ", " \o ToString(damage) \o ")"

\* characters.py:54, max(self.db.health - damage, 0)
clamp_health(h, damage) == Max(h - damage, 0)

\* the test of line 57 written with <
is_dead_strict(h) == h < 0

\* the test of line 57 made where the tables say dead
is_dead_at_one(h) == h <= 1

\* characters.py:57, the test that guards self.die()
is_dead(h) == h <= 0

\* at_weapon_hit sending the victim of a hit it survives to Limbo
at_weapon_hit_fleeing(self, attacker, weapon, damage) ==
  LET h1 == clamp_health(health[self], damage)
      loc == location[self]
      head == <<Msg(self, target_msg(attacker, weapon, damage)),
                Ev("set_health", {self}, "", h1),
                Msg(self, self_health_msg(h1)),
                msg_contents(loc, health_msg(self, h1), {self})>>
  IN  IF is_dead(h1)
      THEN {[health |-> d.health, location |-> d.location, err |-> d.err,
             events |-> head \o d.events] : d \in die(self, h1, loc)}
      ELSE {[health |-> h1, location |-> "Limbo", err |-> "none", events |-> head]}

\* Character.at_weapon_hit: the set of its possible results
at_weapon_hit(self, attacker, weapon, damage) ==
  LET h1 == clamp_health(health[self], damage)
      loc == location[self]
      head == <<Msg(self, target_msg(attacker, weapon, damage)),
                Ev("set_health", {self}, "", h1),
                Msg(self, self_health_msg(h1)),
                msg_contents(loc, health_msg(self, h1), {self})>>
  IN  IF is_dead(h1)
      THEN {[health |-> d.health, location |-> d.location, err |-> d.err,
             events |-> head \o d.events] : d \in die(self, h1, loc)}
      ELSE {[health |-> h1, location |-> loc, err |-> "none", events |-> head]}

(***************************************************************************)
(* Concealment.                                                            *)
(***************************************************************************)
\* obj.is_typeclass("typeclasses.characters.Character"): Mob and the other
\* classes of typeclasses/objects.py derive from Object, not from Character
is_typeclass_Character(obj) == obj \in Characters

\* actor.is_hiding(): the actor is concealed
is_hiding(actor) == hiding[actor] # None /\ hiding[actor] > 0

\* num_unhidden_others counting the Mobs too
num_other_actors(room, hider) ==
  Cardinality({obj \in contents(room) : obj \in Characters \cup Mobs /\ obj # hider})

\* hiding.py num_unhidden_others(room, hider)
num_unhidden_others(room, hider) ==
  Cardinality({obj \in contents(room) : is_typeclass_Character(obj) /\ obj # hider})

Result(value, err, events) == [hiding |-> value, err |-> err, events |-> events]

\* the comparison  hider.ndb.hiding > n  of hide(): a TypeError when
\* ndb.hiding is None, else msg(yes) or msg(no), and the function returns
hide_told(hider, yes, no) ==
  IF hiding[hider] = None
  THEN Result(hiding[hider], "TypeError", <<Ev("raise", {hider}, "TypeError: NoneType > int", 0)>>)
  ELSE Result(hiding[hider], "none", <<Msg(hider, IF hiding[hider] > 0 THEN yes ELSE no)>>)

\* hide without the test of lines 42-44
hide_uncapped(hider, roll1, roll2) ==
  LET room == location[hider]
      h == hiding[hider]
  IN  IF room_kind(room) = "NO_HIDE"
      THEN Result(h, "none", <<Msg(hider, "There is no room to hide here.")>>)
      ELSE IF room_kind(room) = "HARD_TO_HIDE" /\ roll1 > 20
      THEN Result(h, "none", <<Msg(hider, "You couldn't find a place to hide.")>>)
      ELSE IF num_unhidden_others(room, hider) > 0
      THEN hide_told(hider, "You can't hide any better with people in the room.",
                            "You can't hide when people are watching you.")
      ELSE IF roll2 < 25
      THEN hide_told(hider, "You could not find a better hiding place.",
                            "You could not find a good hiding place.")
      ELSE IF h = None
      THEN Result(h, "TypeError", <<Ev("raise", {hider}, "TypeError: NoneType > int", 0)>>)
      ELSE Result(h + 1, "none",
                  <<Msg(hider, IF h + 1 > 1
                               THEN "You've managed to hide yourself a little better."
                               ELSE "You've hidden yourself from view.")>>)

\* hide without the test of lines 23-29
hide_watched(hider, roll1, roll2) ==
  LET room == location[hider]
      h == hiding[hider]
  IN  IF room_kind(room) = "NO_HIDE"
      THEN Result(h, "none", <<Msg(hider, "There is no room to hide here.")>>)
      ELSE IF room_kind(room) = "HARD_TO_HIDE" /\ roll1 > 20
      THEN Result(h, "none", <<Msg(hider, "You couldn't find a place to hide.")>>)
      ELSE IF roll2 < 25
      THEN hide_told(hider, "You could not find a better hiding place.",
                            "You could not find a good hiding place.")
      ELSE IF h = None
      THEN Result(h, "TypeError", <<Ev("raise", {hider}, "TypeError: NoneType > int", 0)>>)
      ELSE IF h > level(hider)
      THEN Result(h, "none",
                  <<Msg(hider, "You're pretty well hidden now.  I don't think you could be any less visible.")>>)
      ELSE Result(h + 1, "none",
                  <<Msg(hider, IF h + 1 > 1
                               THEN "You've managed to hide yourself a little better."
                               ELSE "You've hidden yourself from view.")>>)

\* hide without the test of lines 13-15
hide_anywhere(hider, roll1, roll2) ==
  LET room == location[hider]
      h == hiding[hider]
  IN  IF room_kind(room) = "HARD_TO_HIDE" /\ roll1 > 20
      THEN Result(h, "none", <<Msg(hider, "You couldn't find a place to hide.")>>)
      ELSE IF num_unhidden_others(room, hider) > 0
      THEN hide_told(hider, "You can't hide any better with people in the room.",
                            "You can't hide when people are watching you.")
      ELSE IF roll2 < 25
      THEN hide_told(hider, "You could not find a better hiding place.",
                            "You could not find a good hiding place.")
      ELSE IF h = None
      THEN Result(h, "TypeError", <<Ev("raise", {hider}, "TypeError: NoneType > int", 0)>>)
      ELSE IF h > level(hider)
      THEN Result(h, "none",
                  <<Msg(hider, "You're pretty well hidden now.  I don't think you could be any less visible.")>>)
      ELSE Result(h + 1, "none",
                  <<Msg(hider, IF h + 1 > 1
                               THEN "You've managed to hide yourself a little better."
                               ELSE "You've hidden yourself from view.")>>)

\* hiding.py hide(hider); roll1 and roll2 are the outcomes of its two
\* random.randint(0, 100)
hide(hider, roll1, roll2) ==
  LET room == location[hider]
      h == hiding[hider]
  IN  IF room_kind(room) = "NO_HIDE"
      THEN Result(h, "none", <<Msg(hider, "There is no room to hide here.")>>)
      ELSE IF room_kind(room) = "HARD_TO_HIDE" /\ roll1 > 20
      THEN Result(h, "none", <<Msg(hider, "You couldn't find a place to hide.")>>)
      ELSE IF num_unhidden_others(room, hider) > 0
      THEN hide_told(hider, "You can't hide any better with people in the room.",
                            "You can't hide when people are watching you.")
      ELSE IF roll2 < 25
      THEN hide_told(hider, "You could not find a better hiding place.",
                            "You could not find a good hiding place.")
      ELSE IF h = None
      THEN Result(h, "TypeError", <<Ev("raise", {hider}, "TypeError: NoneType > int", 0)>>)
      ELSE IF h > level(hider)
      THEN Result(h, "none",
                  <<Msg(hider, "You're pretty well hidden now.  I don't think you could be any less visible.")>>)
      ELSE Result(h + 1, "none",
                  <<Msg(hider, IF h + 1 > 1
                               THEN "You've managed to hide yourself a little better."
                               ELSE "You've hidden yourself from view.")>>)

\* the random numbers hide draws: the first in a HARD_TO_HIDE room only
\* (line 19), the second when line 31 is reached
hide_rolls(hider, roll1, roll2) ==
  LET room == location[hider]
      hard == room_kind(room) = "HARD_TO_HIDE"
  IN  [roll1 |-> IF hard THEN roll1 ELSE None,
       roll2 |-> IF room_kind(room) # "NO_HIDE" /\ ~(hard /\ roll1 > 20)
                    /\ num_unhidden_others(room, hider) = 0
                 THEN roll2 ELSE None]

\* reveal without the return of line 64
reveal_no_return(hider) ==
  Result(0, "none",
         (IF hiding[hider] = 0 THEN <<Msg(hider, "You were not hiding.")>> ELSE <<>>)
         \o <<Msg(hider, "You are no longer hiding."),
              msg_contents(location[hider], hider \o " has stepped out of the shadows.", {hider})>>)

\* reveal with nothing excluded from the broadcast of line 67
reveal_to_all(hider) ==
  IF hiding[hider] = 0
  THEN Result(0, "none", <<Msg(hider, "You were not hiding.")>>)
  ELSE Result(0, "none",
              <<Msg(hider, "You are no longer hiding."),
                msg_contents(location[hider], hider \o " has stepped out of the shadows.", {})>>)

\* hiding.py reveal(hider); None == 0 is False, so an unset ndb.hiding takes
\* the second path
reveal(hider) ==
  IF hiding[hider] = 0
  THEN Result(0, "none", <<Msg(hider, "You were not hiding.")>>)
  ELSE Result(0, "none",
              <<Msg(hider, "You are no longer hiding."),
                msg_contents(location[hider], hider \o " has stepped out of the shadows.", {hider})>>)

\* the number of picks reveal_people makes, range(0, 7)
Retries == 7

NotFound == [found |-> FALSE, picked |-> "none", err |-> "none"]

\* random.choice of an empty list
EmptyChoice == [found |-> FALSE, picked |-> "none", err |-> "IndexError"]

\* hiding.py reveal_people(searcher), from pick number retry on: the set of
\* its possible outcomes over every random.choice(characters) and every
\* random.randint(0, MAX_HIDE)
\* reveal_people without the test picked != searcher of line 96
RECURSIVE reveal_people_any(_, _)
reveal_people_any(searcher, retry) ==
  IF retry = Retries THEN {NotFound}
  ELSE LET characters == {x \in contents(location_of(searcher)) : is_typeclass_Character(x)}
           draws == characters \X (0 .. MAX_HIDE)
           hit(d) == is_hiding(d[1]) /\ d[2] > hiding[d[1]]
       IN  IF characters = {} THEN {EmptyChoice}
           ELSE {[found |-> TRUE, picked |-> d[1], err |-> "none"] : d \in {e \in draws : hit(e)}}
                  \cup (IF \E d \in draws : ~hit(d)
                        THEN reveal_people_any(searcher, retry + 1) ELSE {})

\* reveal_people with the comparison of line 97 written with >=
RECURSIVE reveal_people_inclusive(_, _)
reveal_people_inclusive(searcher, retry) ==
  IF retry = Retries THEN {NotFound}
  ELSE LET characters == {x \in contents(location_of(searcher)) : is_typeclass_Character(x)}
           draws == characters \X (0 .. MAX_HIDE)
           hit(d) == d[1] # searcher /\ is_hiding(d[1]) /\ d[2] >= hiding[d[1]]
       IN  IF characters = {} THEN {EmptyChoice}
           ELSE {[found |-> TRUE, picked |-> d[1], err |-> "none"] : d \in {e \in draws : hit(e)}}
                  \cup (IF \E d \in draws : ~hit(d)
                        THEN reveal_people_inclusive(searcher, retry + 1) ELSE {})

RECURSIVE reveal_people_from(_, _)
reveal_people_from(searcher, retry) ==
  IF retry = Retries THEN {NotFound}
  ELSE LET characters == {x \in contents(location_of(searcher)) : is_typeclass_Character(x)}
           draws == characters \X (0 .. MAX_HIDE)
           hit(d) == d[1] # searcher /\ is_hiding(d[1]) /\ d[2] > hiding[d[1]]
       IN  IF characters = {} THEN {EmptyChoice}
           ELSE {[found |-> TRUE, picked |-> d[1], err |-> "none"] : d \in {e \in draws : hit(e)}}
                  \cup (IF \E d \in draws : ~hit(d)
                        THEN reveal_people_from(searcher, retry + 1) ELSE {})

reveal_people(searcher) == reveal_people_from(searcher, 0)

\* hiding.py search(searcher), with rand the outcome of its random.randint(0, 100):
\* the set of its possible results, each the character found (or none), the
\* exception that leaves the call and the events.  The searcher is any object
\* that stands in a room: a Character or a Mob.
search(searcher, rand) ==
  LET room == location_of(searcher)
      looking == msg_contents(room, searcher \o " seems to be looking for something.", {searcher})
      outcomes == IF rand < 20 THEN {NotFound}
                  ELSE IF rand < 40 THEN {NotFound}
                  ELSE reveal_people(searcher)
  IN  {[picked |-> o.picked,
        err |-> o.err,
        events |-> IF o.err # "none"
                   THEN <<looking, Ev("raise", {searcher}, "IndexError: random.choice", 0)>>
                   ELSE IF o.found
                   THEN <<looking,
                          Msg(searcher, "You've found " \o o.picked \o " hiding in the shadows!"),
                          Msg(o.picked, "You've been discovered by " \o searcher),
                          msg_contents(room, searcher \o " has found " \o o.picked
                                               \o " hiding in the shadows!", {searcher})>>
                   ELSE <<looking, Msg(searcher, "You haven't found anything.")>>]
       : o \in outcomes}

(***************************************************************************)
(* The tier probe: two health values and the messages the two tables give  *)
(* for them.                                                               *)
(***************************************************************************)
Thresholds == {1700, 1400, 1200, 1000, 850, 700, 500, 350, 200, 100, 50, 1}

ProbeHealths == {t + d : t \in Thresholds, d \in (0 - Margin) .. Margin} \cap Nat

NoProbe == [h1 |-> SpawnHealth, h2 |-> SpawnHealth, done |-> FALSE,
            self1 |-> "", self2 |-> "", other1 |-> "", other2 |-> ""]

(***************************************************************************)
(* Two calls of at_weapon_hit in flight at once.  The method takes no lock: *)
(* line 54 reads db.health, computes, and writes db.health, and lines 55-57 *)
(* read it again.                                                          *)
(***************************************************************************)
RaceCalls == {"k1", "k2"}

\* the position of a call and its locals: the health line 54 read
Idle == [pc |-> "idle", self |-> "none", attacker |-> "none", weapon |-> "none",
         damage |-> 0, read |-> None, dies |-> 0]

(***************************************************************************)
(* The objects of typeclasses/objects.py: the Mob, the piles of Gold and    *)
(* the Merchant with what is given to it.                                  *)
(***************************************************************************)
\* Mob.at_object_creation: db.max_health = 1000, db.health = 1000.  MIN_HEALTH
\* is imported from gamerules.health (objects.py:21); the record keeps the
\* value the import has.
NewMob(min_health) == [health |-> 1000, max_health |-> 1000, MIN_HEALTH |-> min_health]

\* gain_health with the sum left as it is
unbounded_health(m, amount) == m.health + amount

\* objects.py:380, max(MIN_HEALTH, min(self.db.max_health, self.db.health + amount))
bounded_health(m, amount) == Max(m.MIN_HEALTH, Min(m.max_health, m.health + amount))

\* gamerules.health.health_msg(self.key, self.db.health): the text of the
\* broadcast of line 385
mob_health_msg(key, h) == "health_msg(" \o key \o ", " \o ToString(h) \o ")"

\* Mob.gain_health(amount, damager) of the mob self: the health it leaves and
\* its events; gamerules.combat.mob_death(self, damager) is a call to code
\* outside this module
gain_health(self, amount, damager) ==
  LET h1 == bounded_health(mob, amount)
  IN  [health |-> h1,
       events |-> <<Ev("set_health", {self}, "", h1)>>
                  \o (IF h1 <= 0
                      THEN <<Ev("mob_death", {self}, damager, 0)>>
                      ELSE <<msg_contents(location_of(self), mob_health_msg(self, h1), {self})>>)]

Piles == {"g1", "g2", "g3"}

\* what can hold a pile: the room and the characters in it
Containers == {"Limbo"} \cup Characters

\* a pile that was not created yet: it is nowhere
NoPile == [amount |-> 0, holder |-> "nowhere", desc |-> ""]

\* a pile after delete(): it is in no contents and its attributes are cleared
DeletedPile == [amount |-> 0, holder |-> "deleted", desc |-> ""]

\* the piles a container holds: container.search("gold",
\* candidates=container.contents, typeclass=Gold, quiet=True)
existing_gold(g, container) == {p \in Piles : g[p].holder = container}

\* Gold.add with the sum left as it is
unclamped_amount(a, amount) == a + amount

\* objects.py:223, max(self.db.amount + amount, 0)
clamped_amount(a, amount) == Max(a + amount, 0)

\* objects.py:226, f"{self.db.amount} gold"
gold_desc(a) == ToString(a) \o " gold"

\* Gold.add(amount) on the pile self of the piles g: the piles it leaves.
\* The pile that comes to 0 is deleted at line 225, before line 226.
add(g, self, amount) ==
  LET a1 == clamped_amount(g[self].amount, amount)
  IN  [g EXCEPT ![self] = IF a1 = 0
                          THEN DeletedPile
                          ELSE [@ EXCEPT !.amount = a1, !.desc = gold_desc(a1)]]

\* the loop of at_get that deletes the other piles without adding them
merge_discarding(g, keeper, rest) ==
  [p \in Piles |-> IF p \in rest THEN DeletedPile ELSE g[p]]

\* objects.py:232-236 and 242-246: for g in existing_gold[1:]:
\* keeper.add(g.db.amount); g.delete()
RECURSIVE merge(_, _, _)
merge(g, keeper, rest) ==
  IF rest = {}
  THEN g
  ELSE LET p == CHOOSE x \in rest : TRUE
           g1 == add(g, keeper, g[p].amount)
       IN  merge([g1 EXCEPT ![p] = DeletedPile], keeper, rest \ {p})

\* Gold.at_get(getter), after the pile moved to the getter: the piles it can
\* leave.  existing_gold[0] is the first pile the search returns; the order
\* of the search is the order of the database, so every pile can be first.
at_get(g, getter) ==
  LET found == existing_gold(g, getter)
  IN  IF Cardinality(found) > 1
      THEN {merge(g, keeper, found \ {keeper}) : keeper \in found}
      ELSE {g}

\* Gold.at_drop(dropper) of the pile self, after it moved to the room
at_drop(g, self) ==
  LET found == existing_gold(g, g[self].holder)
  IN  IF Cardinality(found) > 1
      THEN {merge(g, keeper, found \ {keeper}) : keeper \in found}
      ELSE {g}

\* the amounts add is called with, and the amount add is not called above
AddAmounts == {-20, -5, 5}
MaxAmount == 15

Items == {"i1", "i2"}

\* where an object given to the Merchant can come from: a room, a mob, a
\* character; "nowhere" is the source_location None of an object that had no
\* location
Sources == {"Limbo"} \cup Mobs \cup Characters

\* source_location.account: "none" is the account None of a character nobody
\* plays; the others are accounts with that permission
Accounts == {"none", "Player", "Builder", "Admin", "Developer"}

\* the permission hierarchy check_permstring compares in
PermRank(perm) ==
  CASE perm = "Player" -> 1
    [] perm = "Builder" -> 2
    [] perm = "Admin" -> 3
    [] perm = "Admins" -> 3
    [] perm = "Developer" -> 4

\* account.check_permstring(permstring) of an account with the permission
\* perm: the permission is at or above permstring, plural or not
check_permstring(perm, permstring) == PermRank(perm) >= PermRank(permstring)

\* Merchant.at_object_creation: super() assigns db.sticky = False (line 178),
\* then self.sticky = True assigns the attribute sticky of the Python object
\* (merchant.py:9, objects.py:391).  The Merchant stands in Limbo; item_at is
\* where each object that can be given is ("merchant": in the Merchant's
\* contents); account is the account of each character.
NewShop ==
  [holder |-> "Limbo", db_sticky |-> FALSE, sticky |-> TRUE,
   item_at |-> [i \in Items |-> "nowhere"],
   account |-> [c \in Characters |-> "Player"]]

\* source_location.account of a source: rooms and mobs have none
account_of(sh, source) == IF source \in Characters THEN sh.account[source] ELSE "none"

\* is_admin that takes every source with an account
is_admin_any_account(sh, source) ==
  source # "nowhere" /\ account_of(sh, source) # "none"

\* merchant.py:37-38 (objects.py:407-408): source_location and
\* source_location.account and (check_permstring("Developer") or
\* check_permstring("Admins"))
is_admin(sh, source) ==
  /\ source # "nowhere"
  /\ account_of(sh, source) # "none"
  /\ \/ check_permstring(account_of(sh, source), "Developer")
     \/ check_permstring(account_of(sh, source), "Admins")

FreeStuffMsg == "Sweet, merchants love free stuff."

\* Merchant.at_object_receive(moved_obj, source_location), after moved_obj
\* moved into the Merchant: where the items are and the events
at_object_receive(sh, moved_obj, source_location) ==
  LET inside == [sh.item_at EXCEPT ![moved_obj] = "merchant"]
  IN  IF ~is_admin(sh, source_location)
      THEN [item_at |-> [inside EXCEPT ![moved_obj] = "deleted"],
            events |-> <<Ev("delete", {moved_obj}, "", 0)>>
                       \o (IF source_location # "nowhere"
                           THEN <<Msg(source_location, FreeStuffMsg)>>
                           ELSE <<>>)]
      ELSE [item_at |-> inside, events |-> <<>>]

\* Object.at_before_get(getter) of the Merchant (objects.py:186-191):
\* db.get_fail_msg is None, so the refusal sends nothing
at_before_get(sh, getter) == ~sh.db_sticky

(***************************************************************************)
(* The state machine.                                                      *)
(***************************************************************************)
\* Character.at_object_creation: db.health = 1000; ndb.hiding is not assigned.
\* A character is created in the default start location.
Init ==
  /\ health = [c \in Characters |-> SpawnHealth]
  /\ hiding = [c \in Characters |-> None]
  /\ location = [c \in Characters |-> "Limbo"]
  /\ probe = NoProbe
  /\ inflight = [k \in RaceCalls |-> Idle]
  /\ lvl = Levels
  /\ mob = NewMob(0)
  /\ gold = [g \in Piles |-> NoPile]
  /\ shop = NewShop
  /\ last = Call("at_object_creation", "none", NoArgs, "none", <<>>)

\* the framework moves a character to another room and calls at_after_move,
\* which shows the character the room
Move ==
  \E self \in Characters, room \in Rooms :
    /\ room # location[self]
    /\ location' = [location EXCEPT ![self] = room]
    /\ last' = Call("at_after_move", self, NoArgs, "none", <<Msg(self, "at_look(" \o room \o ")")>>)
    /\ UNCHANGED <<health, hiding, probe, inflight, lvl, mob, gold, shop>>

\* a call of at_weapon_hit with one of the given amounts
WeaponHitBy(amounts) ==
  \E self \in Characters, attacker \in (Characters \cup Mobs), weapon \in Weapons,
     damage \in amounts :
    /\ attacker # self
    /\ health[self] - damage <= HealthCap
    /\ \E r \in at_weapon_hit(self, attacker, weapon, damage) :
         /\ health' = [health EXCEPT ![self] = r.health]
         /\ location' = [location EXCEPT ![self] = r.location]
         /\ last' = Call("at_weapon_hit", self,
                         [NoArgs EXCEPT !.attacker = attacker, !.weapon = weapon,
                                        !.damage = damage],
                         r.err, r.events)
    /\ UNCHANGED <<hiding, probe, inflight, lvl, mob, gold, shop>>

WeaponHit == WeaponHitBy(Damages)

\* the hits of the two engines together: a hit that kills and a hit that
\* does nothing
WorldHit == WeaponHitBy(WorldDamages)

Hide ==
  \E hider \in Characters, roll1 \in HardRolls, roll2 \in HideRolls :
    LET r == hide(hider, roll1, roll2)
        d == hide_rolls(hider, roll1, roll2)
    IN  /\ hiding' = [hiding EXCEPT ![hider] = r.hiding]
        /\ last' = Call("hide", hider,
                        [NoArgs EXCEPT !.roll1 = d.roll1, !.roll2 = d.roll2],
                        r.err, r.events)
        /\ UNCHANGED <<health, location, probe, inflight, lvl, mob, gold, shop>>

Reveal ==
  \E hider \in Characters :
    LET r == reveal(hider)
    IN  /\ hiding' = [hiding EXCEPT ![hider] = r.hiding]
        /\ last' = Call("reveal", hider, NoArgs, r.err, r.events)
        /\ UNCHANGED <<health, location, probe, inflight, lvl, mob, gold, shop>>

Search ==
  \E searcher \in Characters \cup Mobs, rand \in SearchRolls :
    \E r \in search(searcher, rand) :
      /\ hiding' = IF r.picked = "none" THEN hiding ELSE [hiding EXCEPT ![r.picked] = 0]
      /\ last' = Call("search", searcher, [NoArgs EXCEPT !.rand = rand], r.err, r.events)
      /\ UNCHANGED <<health, location, probe, inflight, lvl, mob, gold, shop>>

\* the two engines together
Next == Move \/ WorldHit \/ Hide \/ Reveal \/ Search

Spec == Init /\ [][Next]_vars

\* the combat engine alone: any sequence of at_weapon_hit calls, in any room
NextCombat == Move \/ WeaponHit

SpecCombat == Init /\ [][NextCombat]_vars

\* the concealment engine alone: any sequence of hide, reveal and search
\* calls, in any room
NextHide == Move \/ Hide \/ Reveal \/ Search

SpecHide == Init /\ [][NextHide]_vars

\* the concealment engine with the veteran
InitVeteran ==
  /\ health = [c \in Characters |-> SpawnHealth]
  /\ hiding = [c \in Characters |-> None]
  /\ location = [c \in Characters |-> "Limbo"]
  /\ probe = NoProbe
  /\ inflight = [k \in RaceCalls |-> Idle]
  /\ lvl = VeteranLevels
  /\ mob = NewMob(0)
  /\ gold = [g \in Piles |-> NoPile]
  /\ shop = NewShop
  /\ last = Call("at_object_creation", "none", NoArgs, "none", <<>>)

SpecVeteran == InitVeteran /\ [][NextHide]_vars

\* a new Mob, with one of the values of MIN_HEALTH, and the characters in
\* the rooms their moves took them to
InitMob ==
  /\ health = [c \in Characters |-> SpawnHealth]
  /\ hiding = [c \in Characters |-> None]
  /\ location \in [Characters -> Rooms]
  /\ probe = NoProbe
  /\ inflight = [k \in RaceCalls |-> Idle]
  /\ lvl = Levels
  /\ \E min_health \in MinHealths : mob = NewMob(min_health)
  /\ gold = [g \in Piles |-> NoPile]
  /\ shop = NewShop
  /\ last = Call("at_object_creation", "none", NoArgs, "none", <<>>)

MobGainHealth ==
  \E self \in Mobs, amount \in MobAmounts, damager \in {"none", "c1"} :
    LET r == gain_health(self, amount, damager)
    IN  /\ mob' = [mob EXCEPT !.health = r.health]
        /\ last' = Call("gain_health", self,
                        [NoArgs EXCEPT !.amount = amount, !.attacker = damager],
                        "none", r.events)
        /\ UNCHANGED <<health, hiding, location, probe, inflight, lvl, gold, shop>>

NextMob == MobGainHealth

SpecMob == InitMob /\ [][NextMob]_vars

\* Gold.at_object_creation: db.amount = 0, then add(5); the pile is created
\* in a room or in an inventory
GoldCreate ==
  \E self \in Piles, where \in Containers :
    /\ gold[self].holder = "nowhere"
    /\ gold' = add([gold EXCEPT ![self] = [NoPile EXCEPT !.holder = where]], self, 5)
    /\ last' = Call("Gold.at_object_creation", self, [NoArgs EXCEPT !.amount = 5],
                    "none", <<>>)
    /\ UNCHANGED <<health, hiding, location, probe, inflight, lvl, mob, shop>>

\* Gold.add(amount) on a pile that exists.  When the pile is deleted at line
\* 225, line 226 assigns an attribute of a deleted object, which the
\* framework stores or refuses.
GoldAdd ==
  \E self \in Piles, amount \in AddAmounts :
    /\ gold[self].holder \in Containers
    /\ gold[self].amount + amount <= MaxAmount
    /\ gold' = add(gold, self, amount)
    /\ \E err \in (IF gold'[self].holder = "deleted"
                    THEN {"none", "ValueError"} ELSE {"none"}) :
         last' = Call("add", self, [NoArgs EXCEPT !.amount = amount], err, <<>>)
    /\ UNCHANGED <<health, hiding, location, probe, inflight, lvl, mob, shop>>

\* the get command on a pile in the getter's room: at_before_get allows it
\* (db.sticky is False), the pile moves to the getter, then at_get
GoldGet ==
  \E self \in Piles, getter \in Characters :
    /\ gold[self].holder = location[getter]
    /\ gold' \in at_get([gold EXCEPT ![self].holder = getter], getter)
    /\ last' = Call("at_get", self, [NoArgs EXCEPT !.who = getter], "none", <<>>)
    /\ UNCHANGED <<health, hiding, location, probe, inflight, lvl, mob, shop>>

\* the drop command on a pile the dropper holds: the pile moves to the
\* dropper's room, then at_drop
GoldDrop ==
  \E self \in Piles, dropper \in Characters :
    /\ gold[self].holder = dropper
    /\ gold' \in at_drop([gold EXCEPT ![self].holder = location[dropper]], self)
    /\ last' = Call("at_drop", self, [NoArgs EXCEPT !.who = dropper], "none", <<>>)
    /\ UNCHANGED <<health, hiding, location, probe, inflight, lvl, mob, shop>>

NextGold == GoldCreate \/ GoldAdd \/ GoldGet \/ GoldDrop

SpecGold == Init /\ [][NextGold]_vars

\* a new Merchant in Limbo, the characters with the accounts they have, the
\* objects where their owners have them
InitShop ==
  /\ health = [c \in Characters |-> SpawnHealth]
  /\ hiding = [c \in Characters |-> None]
  /\ location = [c \in Characters |-> "Limbo"]
  /\ probe = NoProbe
  /\ inflight = [k \in RaceCalls |-> Idle]
  /\ lvl = Levels
  /\ mob = NewMob(0)
  /\ gold = [g \in Piles |-> NoPile]
  /\ \E item_at \in [Items -> Sources \cup {"nowhere"}], account \in [Characters -> Accounts] :
       shop = [NewShop EXCEPT !.item_at = item_at, !.account = account]
  /\ last = Call("at_object_creation", "none", NoArgs, "none", <<>>)

\* an object is moved into the Merchant from where it is (the give command,
\* move_to), which calls Merchant.at_object_receive
MerchantReceive ==
  \E moved_obj \in Items :
    LET source_location == shop.item_at[moved_obj]
        r == at_object_receive(shop, moved_obj, source_location)
    IN  /\ source_location \in Sources \cup {"nowhere"}
        /\ shop' = [shop EXCEPT !.item_at = r.item_at]
        /\ last' = Call("at_object_receive", "merchant",
                        [NoArgs EXCEPT !.obj = moved_obj, !.source = source_location],
                        "none", r.events)
        /\ UNCHANGED <<health, hiding, location, probe, inflight, lvl, mob, gold>>

\* the get command on the Merchant by a character in its room: at_before_get
\* decides, and when it allows the Merchant moves to the getter
MerchantGet ==
  \E getter \in Characters :
    /\ shop.holder = location[getter]
    /\ shop' = [shop EXCEPT !.holder = IF at_before_get(shop, getter) THEN getter ELSE @]
    /\ last' = Call("at_before_get", "merchant", [NoArgs EXCEPT !.who = getter], "none",
                    IF at_before_get(shop, getter)
                    THEN <<Ev("move_to", {"merchant"}, getter, 0)>>
                    ELSE <<>>)
    /\ UNCHANGED <<health, hiding, location, probe, inflight, lvl, mob, gold>>

\* the drop command on the Merchant by the character that holds it
MerchantDrop ==
  \E dropper \in Characters :
    /\ shop.holder = dropper
    /\ shop' = [shop EXCEPT !.holder = location[dropper]]
    /\ last' = Call("at_drop", "merchant", [NoArgs EXCEPT !.who = dropper], "none",
                    <<Ev("move_to", {"merchant"}, location[dropper], 0)>>)
    /\ UNCHANGED <<health, hiding, location, probe, inflight, lvl, mob, gold>>

NextShop == MerchantReceive \/ MerchantGet \/ MerchantDrop

SpecShop == InitShop /\ [][NextShop]_vars

\* characters.py:51-52: the call begins and sends the strike notification
HitEnter(k) ==
  \E self \in Characters, attacker \in Mobs, weapon \in Weapons, damage \in RaceDamages :
    /\ inflight[k].pc = "idle"
    /\ inflight' = [inflight EXCEPT ![k] =
                      [Idle EXCEPT !.pc = "read", !.self = self, !.attacker = attacker,
                                   !.weapon = weapon, !.damage = damage]]
    /\ UNCHANGED <<health, hiding, location, last, probe, lvl, mob, gold, shop>>

\* line 54, right-hand side: self.db.health is read
HitReadHealth(k) ==
  /\ inflight[k].pc = "read"
  /\ inflight' = [inflight EXCEPT ![k].pc = "write", ![k].read = health[inflight[k].self]]
  /\ UNCHANGED <<health, hiding, location, last, probe, lvl, mob, gold, shop>>

\* line 54, assignment: self.db.health = max(<the value read> - damage, 0)
HitWriteHealth(k) ==
  /\ inflight[k].pc = "write"
  /\ health' = [health EXCEPT ![inflight[k].self] =
                  clamp_health(inflight[k].read, inflight[k].damage)]
  /\ inflight' = [inflight EXCEPT ![k].pc = "report"]
  /\ UNCHANGED <<hiding, location, last, probe, lvl, mob, gold, shop>>

\* lines 55-58: both condition messages and the test of line 57 read
\* self.db.health as it is now; die() when it is <= 0
HitReport(k) ==
  LET c == inflight[k]
      h == health[c.self]
      loc == location[c.self]
      head == <<Msg(c.self, target_msg(c.attacker, c.weapon, c.damage)),
                Ev("set_health", {c.self}, "", clamp_health(c.read, c.damage)),
                Msg(c.self, self_health_msg(h)),
                msg_contents(loc, health_msg(c.self, h), {c.self})>>
      args == [NoArgs EXCEPT !.attacker = c.attacker, !.weapon = c.weapon,
                             !.damage = c.damage]
  IN  /\ c.pc = "report"
      /\ IF is_dead(h)
         THEN \E d \in die(c.self, h, loc) :
                /\ health' = [health EXCEPT ![c.self] = d.health]
                /\ location' = [location EXCEPT ![c.self] = d.location]
                /\ last' = Call("at_weapon_hit", c.self, args, d.err, head \o d.events)
                /\ inflight' = [inflight EXCEPT ![k].pc = "done", ![k].dies = 1]
         ELSE /\ last' = Call("at_weapon_hit", c.self, args, "none", head)
              /\ inflight' = [inflight EXCEPT ![k].pc = "done"]
              /\ UNCHANGED <<health, location>>
      /\ UNCHANGED <<hiding, probe, lvl, mob, gold, shop>>

NextRace ==
  \E k \in RaceCalls : HitEnter(k) \/ HitReadHealth(k) \/ HitWriteHealth(k) \/ HitReport(k)

SpecRace == Init /\ [][NextRace]_vars

\* the probe specification: any two health values around the thresholds
InitProbe ==
  /\ health = [c \in Characters |-> SpawnHealth]
  /\ hiding = [c \in Characters |-> None]
  /\ location = [c \in Characters |-> "Limbo"]
  /\ \E h1 \in ProbeHealths, h2 \in ProbeHealths :
       probe = [NoProbe EXCEPT !.h1 = h1, !.h2 = h2]
  /\ inflight = [k \in RaceCalls |-> Idle]
  /\ lvl = Levels
  /\ mob = NewMob(0)
  /\ gold = [g \in Piles |-> NoPile]
  /\ shop = NewShop
  /\ last = Call("at_object_creation", "none", NoArgs, "none", <<>>)

TierProbe ==
  /\ ~probe.done
  /\ probe' = [probe EXCEPT !.done = TRUE,
                            !.self1 = self_health_msg(probe.h1),
                            !.self2 = self_health_msg(probe.h2),
                            !.other1 = health_msg("c1", probe.h1),
                            !.other2 = health_msg("c1", probe.h2)]
  /\ UNCHANGED <<health, hiding, location, last, inflight, lvl, mob, gold, shop>>

\* one call of at_weapon_hit on a character as at_object_creation left it
ScenarioHit ==
  /\ last.op = "at_object_creation"
  /\ WeaponHitBy(ScenarioDamages)

NextProbe == TierProbe \/ ScenarioHit

SpecProbe == InitProbe /\ [][NextProbe]_vars

(***************************************************************************)
(* Properties.  They read the record of the last call.                     *)
(***************************************************************************)
EventsOfKind(kind) == SelectSeq(last.events, LAMBDA e : e.kind = kind)

Sent(e) == \E i \in 1 .. Len(last.events) : last.events[i] = e

IsHit == last.op = "at_weapon_hit"

\* the health the clamp of the last at_weapon_hit gives
ClampedResult == Max(last.before.health[last.self] - last.args.damage, 0)

\* the number of times the last call entered die()
DieCalls == Len(EventsOfKind("die"))

\* what stood in a room when the last call began
ContentsBefore(room) ==
  {c \in Characters : last.before.location[c] = room}
    \cup {o \in Mobs \cup Things : FixedLocation(o) = room}

\* the room the last call's object was in
RoomBefore ==
  IF last.self \in Characters THEN last.before.location[last.self]
  ELSE FixedLocation(last.self)

\* the other occupants of that room among the objects of the given kinds
OthersBefore(kinds) == (ContentsBefore(RoomBefore) \cap kinds) \ {last.self}

StateUnchanged ==
  /\ health = last.before.health
  /\ hiding = last.before.hiding
  /\ location = last.before.location

\* C1: after any sequence of at_weapon_hit calls, with any amounts, every
\* character's health is at least 0 and at most its maximum health.
C1_HealthInRange ==
  \A a \in Characters : 0 <= health[a] /\ health[a] <= max_health(a)

\* C2: an at_weapon_hit call whose clamped health is 0 enters the death
\* transition exactly once within the call, and a call whose clamped health
\* is greater than 0 does not enter it.
C2_OneDeathPerZero ==
  IsHit => DieCalls = (IF ClampedResult = 0 THEN 1 ELSE 0)

C2_Witness == IsHit /\ ClampedResult = 0 /\ DieCalls = 1

\* C3: a character whose health at_weapon_hit drives to 0 ends the call with
\* health 200 and, if the fallback location "Limbo" resolved, located there.
C3_DeathTransitionResets ==
  (IsHit /\ ClampedResult = 0)
    => /\ health[last.self] = RespawnHealth
       /\ (EventsOfKind("move_to") # <<>> => location[last.self] = "Limbo")

\* C4: when the death transition does not resolve the fallback location, the
\* character stays where it is, no exception leaves at_weapon_hit, and health
\* is still reset to 200.
C4_UnresolvedIsSwallowed ==
  (IsHit /\ DieCalls > 0 /\ EventsOfKind("move_to") = <<>>)
    => /\ last.err = "none"
       /\ location[last.self] = last.before.location[last.self]
       /\ health[last.self] = RespawnHealth

\* C5: at_weapon_hit with a negative amount is treated as zero damage: the
\* defender's health after the call is never greater than before it.
C5_NegativeDamageIsZero ==
  (IsHit /\ last.args.damage < 0)
    => health[last.self] <= last.before.health[last.self]

\* C6: in every state reached by hide, reveal and search calls, a character's
\* concealment level is at most its level + 1; no hide call raises it beyond.
C6_ConcealmentCap ==
  \A a \in Characters : hiding[a] # None => hiding[a] <= level(a) + 1

C6_Witness ==
  /\ last.op = "hide"
  /\ last.before.hiding[last.self] = level(last.self)
  /\ hiding[last.self] = level(last.self) + 1

C8_RevealWhenNotHiding ==
  (last.op = "reveal" /\ last.before.hiding[last.self] = 0)
    => /\ StateUnchanged
       /\ last.err = "none"
       /\ last.events = <<Msg(last.self, "You were not hiding.")>>

C8_Witness ==
  /\ last.op = "reveal"
  /\ last.before.hiding[last.self] = 0
  /\ OthersBefore(Characters) # {}

\* C9: reveal on a character whose concealment level is above 0 sets it to 0
\* and sends the "stepped out of the shadows" message to every other occupant
\* of the room and not to the character itself.
C9_RevealWhenHidden ==
  (last.op = "reveal" /\ last.before.hiding[last.self] > 0)
    => /\ hiding[last.self] = 0
       /\ Sent(Ev("msg_contents",
                  ContentsBefore(last.before.location[last.self]) \ {last.self},
                  last.self \o " has stepped out of the shadows.", 0))
       /\ \A i \in 1 .. Len(last.events) :
            last.events[i].kind = "msg_contents" => last.self \notin last.events[i].to

C9_Witness ==
  /\ last.op = "reveal"
  /\ last.before.hiding[last.self] >= 2
  /\ OthersBefore(Characters) # {}
  /\ hiding[last.self] = 0

\* the rows of the self-perspective table, best first
SelfTiers ==
  <<"You are in ultimate health.", "You are in incredible health.",
    "You are in extraordinary health.", "You are in tremendous health.",
    "You are in superior condition.", "You are in exceptional health.",
    "You are in good health.", "You feel a little bit dazed.",
    "You have some minor cuts and abrasions.",
    "You are suffering from some serious wounds.",
    "You are in critical condition.", "You are near death.", "You are dead.">>

\* the row of a message in the table: 1 is the best tier, 13 the worst
TierRow(msg) == CHOOSE i \in 1 .. Len(SelfTiers) : SelfTiers[i] = msg

\* C10: for health values h1 > h2 the self-perspective tier of h1 is never
\* lower in the table than the tier of h2.
C10_TierMonotonic ==
  (probe.done /\ probe.h1 > probe.h2) => TierRow(probe.self1) <= TierRow(probe.self2)

C10_Witness ==
  /\ probe.done
  /\ probe.h1 = probe.h2 + 1
  /\ TierRow(probe.self1) < TierRow(probe.self2)

\* the lower bound of each row of the documented table but the last
TableLowerBounds == <<1700, 1401, 1201, 1001, 851, 701, 501, 351, 201, 101, 51, 2>>

\* the row of the documented table a health value falls in
TableRow(h) ==
  IF \E i \in 1 .. Len(TableLowerBounds) : TableLowerBounds[i] <= h
  THEN CHOOSE i \in 1 .. Len(TableLowerBounds) :
         /\ TableLowerBounds[i] <= h
         /\ \A j \in 1 .. (i - 1) : TableLowerBounds[j] > h
  ELSE Len(TableLowerBounds) + 1

\* C11: the self-perspective message of every health value is the one of its
\* row in the documented table (1700 ultimate, 1699 and 1401 incredible, 1400
\* extraordinary, 1000 superior, 850 exceptional, 2 near death, 1 and 0 dead),
\* and a hit of 150 on health 1000 leaves health 850, tells the victim it is
\* in exceptional health and does not enter the death transition.
C11_TierTable ==
  /\ probe.done =>
       /\ TierRow(probe.self1) = TableRow(probe.h1)
       /\ TierRow(probe.self2) = TableRow(probe.h2)
  /\ (IsHit /\ last.before.health[last.self] = 1000 /\ last.args.damage = 150) =>
       /\ health[last.self] = 850
       /\ last.events[3] = Msg(last.self, "You are in exceptional health.")
       /\ DieCalls = 0
       /\ last.err = "none"

C11_Witness ==
  /\ probe.done
  /\ probe.h1 = 1700 /\ probe.self1 = "You are in ultimate health."
  /\ probe.h2 = 1 /\ probe.self2 = "You are dead."
  /\ IsHit /\ last.before.health[last.self] = 1000 /\ last.args.damage = 150
  /\ health[last.self] = 850

\* C12: a hit performs its steps in this order: the strike notification to the
\* victim, the clamp of health, the victim's own condition message, the
\* broadcast of its condition to the room, then the death transition; on a
\* lethal hit both condition messages are the dead tier of health 0, the
\* death transition comes after them, and the call ends with health 200.
C12_StepsInOrder ==
  IsHit =>
    /\ Len(last.events) >= 4
    /\ last.events[1] =
         Msg(last.self, target_msg(last.args.attacker, last.args.weapon, last.args.damage))
    /\ last.events[2] = Ev("set_health", {last.self}, "", ClampedResult)
    /\ last.events[3] = Msg(last.self, self_health_msg(ClampedResult))
    /\ last.events[4].kind = "msg_contents"
    /\ last.events[4].text = health_msg(last.self, ClampedResult)
    /\ \A i \in 1 .. Len(last.events) : last.events[i].kind = "die" => i > 4
    /\ (last.args.damage >= last.before.health[last.self]) =>
         /\ last.events[3].text = "You are dead."
         /\ last.events[4].text = last.self \o " is dead."
         /\ DieCalls = 1
         /\ health[last.self] = RespawnHealth

IsHide == last.op = "hide"

\* both rolls of the last hide passed: the first, when the room made the call
\* draw it, was at most 20, and the second was drawn and at least 25
BothRollsPassed ==
  /\ last.args.roll1 <= 20
  /\ last.args.roll2 # None /\ last.args.roll2 >= 25

CapMsg == "You're pretty well hidden now.  I don't think you could be any less visible."

\* C13: a character whose concealment is at the cap (level + 1) and that
\* calls hide with no other character in a room that permits hiding keeps its
\* concealment, whatever the rolls; when both rolls pass it is told that it
\* cannot be any less visible.
C13_AtCapNoChange ==
  (/\ IsHide
   /\ last.before.hiding[last.self] = level(last.self) + 1
   /\ room_kind(RoomBefore) # "NO_HIDE"
   /\ OthersBefore(Characters) = {}) =>
    /\ StateUnchanged
    /\ BothRollsPassed => last.events = <<Msg(last.self, CapMsg)>>

C13_Witness ==
  /\ IsHide
  /\ last.before.hiding[last.self] = level(last.self) + 1
  /\ room_kind(RoomBefore) = "HARD_TO_HIDE"
  /\ OthersBefore(Characters) = {}
  /\ BothRollsPassed
  /\ hiding[last.self] = level(last.self) + 1
  /\ Sent(Msg(last.self, CapMsg))

\* C14: in a NO_HIDE room every hide fails with "There is no room to hide
\* here." before any roll is drawn and whoever else is in the room, and it
\* changes nothing: no sequence of hide calls there changes a concealment.
C14_NoHideRoom ==
  (IsHide /\ room_kind(RoomBefore) = "NO_HIDE") =>
    /\ last.events = <<Msg(last.self, "There is no room to hide here.")>>
    /\ last.err = "none"
    /\ last.args.roll1 = None /\ last.args.roll2 = None
    /\ StateUnchanged

\* a concealed character hides again in a NO_HIDE room where another
\* character stands
C14_Witness ==
  /\ IsHide
  /\ room_kind(RoomBefore) = "NO_HIDE"
  /\ OthersBefore(Characters) # {}
  /\ last.before.hiding[last.self] > 0
  /\ hiding[last.self] = last.before.hiding[last.self]
  /\ Sent(Msg(last.self, "There is no room to hide here."))

\* the last hide took the path on which every test passed: a room that
\* permits hiding, both rolls passed, no other character in the room and a
\* concealment level not above the hider's level
FullSuccessPath ==
  /\ room_kind(RoomBefore) # "NO_HIDE"
  /\ BothRollsPassed
  /\ OthersBefore(Characters) = {}
  /\ last.before.hiding[last.self] # None
  /\ last.before.hiding[last.self] <= level(last.self)

\* what no path of hide touches: every health, every location and the
\* concealment of every character but the hider
HideFrame ==
  /\ health = last.before.health
  /\ location = last.before.location
  /\ \A c \in Characters \ {last.self} : hiding[c] = last.before.hiding[c]

\* C15: hide changes state only on its full-success path; on every other
\* path (NO_HIDE, failed hard-to-hide roll, others present, failed hide roll,
\* at the cap) its only effect is one message to the hider; on every path
\* the hider's health and location, and the concealment, health and location
\* of everyone else, are unchanged.
C15_HideFrame ==
  IsHide =>
    /\ HideFrame
    /\ hiding[last.self] # last.before.hiding[last.self] => FullSuccessPath
    /\ ~FullSuccessPath =>
         /\ hiding[last.self] = last.before.hiding[last.self]
         /\ last.err = "none"
         /\ Len(last.events) = 1
         /\ last.events[1].kind = "msg" /\ last.events[1].to = {last.self}

IsSearch == last.op = "search"

\* the characters reveal_people chooses from: those in the searcher's room
CandidatesBefore == ContentsBefore(RoomBefore) \cap Characters

NothingFoundMsg == "You haven't found anything."

\* C16: a search in a room whose set of candidates is empty or holds only the
\* searcher completes without failure, tells the searcher that nothing was
\* found and changes no state.
C16_NoCandidates ==
  (IsSearch /\ CandidatesBefore \subseteq {last.self}) =>
    /\ last.err = "none"
    /\ Sent(Msg(last.self, NothingFoundMsg))
    /\ StateUnchanged

\* the characters whose concealment the last call changed
Revealed == {c \in Characters : hiding[c] # last.before.hiding[c]}

\* C17: a search reveals at most one character; the one it reveals is not the
\* searcher, was concealed in the searcher's room, ends at concealment 0 and
\* is announced once, after which the scan stops; the concealment of the
\* searcher and of everyone else is unchanged by the call.
C17_AtMostOneRevealed ==
  IsSearch =>
    /\ Cardinality(Revealed) <= 1
    /\ \A c \in Revealed :
         /\ c # last.self
         /\ c \in CandidatesBefore
         /\ last.before.hiding[c] > 0
         /\ hiding[c] = 0
         /\ Len(last.events) = 4
         /\ last.events[2] = Msg(last.self, "You've found " \o c \o " hiding in the shadows!")
         /\ last.events[3] = Msg(c, "You've been discovered by " \o last.self)
    /\ \A c \in Characters \ Revealed : hiding[c] = last.before.hiding[c]
    /\ health = last.before.health /\ location = last.before.location

\* a concealed character searches its room and reveals the other concealed
\* character, staying concealed itself
C17_Witness ==
  /\ IsSearch
  /\ last.self \in Characters
  /\ last.before.hiding[last.self] > 0
  /\ hiding[last.self] = last.before.hiding[last.self]
  /\ Cardinality(Revealed) = 1
  /\ \A c \in Revealed : last.before.hiding[c] > 1 /\ hiding[c] = 0

\* C18: a search whose category roll is below 40 changes no concealment and
\* tells the searcher "You haven't found anything."; in general the searcher
\* receives that message exactly when the call revealed no one.
C18_NothingFoundMessage ==
  IsSearch =>
    /\ last.args.rand < 40 =>
         /\ hiding = last.before.hiding
         /\ Sent(Msg(last.self, NothingFoundMsg))
    /\ Sent(Msg(last.self, NothingFoundMsg)) <=> Revealed = {}

\* C19: creation leaves every character at full health and concealment 0, so
\* that hide, reveal and search on a new character read a defined integer
\* concealment level.
C19_SpawnInitialised ==
  /\ last.op = "at_object_creation" =>
       \A c \in Characters : health[c] = max_health(c) /\ hiding[c] = 0
  /\ (last.op \in {"hide", "reveal", "search"} /\ last.self \in Characters) =>
       /\ last.before.hiding[last.self] # None
       /\ last.err # "TypeError"

\* C20: a character that is concealed when a hit drives its health to 0 has
\* concealment 0 when the call, with its death transition, is over.
C20_ConcealmentResetOnDeath ==
  (IsHit /\ ClampedResult = 0 /\ last.before.hiding[last.self] > 0) =>
    hiding[last.self] = 0

\* the health and the number of entries of die() that one whole call of
\* at_weapon_hit leaves, from health h
WholeHit(self, h, damage) ==
  LET h1 == clamp_health(h, damage)
  IN  IF is_dead(h1)
      THEN {[health |-> d.health, dies |-> 1] : d \in die(self, h1, location[self])}
      ELSE {[health |-> h1, dies |-> 0]}

\* the outcomes of the two calls run one after the other, in either order
SerialOutcomes(self, h, a, b) ==
  LET seq(x, y) ==
        UNION {{[health |-> r2.health, dies |-> r1.dies + r2.dies] :
                  r2 \in WholeHit(self, r1.health, y)} : r1 \in WholeHit(self, h, x)}
  IN  seq(a, b) \cup seq(b, a)

BothDone == \A k \in RaceCalls : inflight[k].pc = "done"

C22_FrameOfTheCore ==
  /\ last.op \in {"hide", "reveal", "search"} =>
       health = last.before.health /\ location = last.before.location
  /\ IsHit =>
       /\ hiding = last.before.hiding
       /\ \A c \in Characters \ {last.self} :
            health[c] = last.before.health[c] /\ location[c] = last.before.location[c]
       /\ ClampedResult # 0 => location[last.self] = last.before.location[last.self]

\* a concealed character outside Limbo survives a hit where it stands, after
\* the other character was hit to health 0
C22_Witness ==
  /\ IsHit
  /\ ClampedResult # 0
  /\ last.before.hiding[last.self] > 0
  /\ location[last.self] = "Alley"
  /\ \E c \in Characters \ {last.self} : health[c] = 0 /\ location[c] = "Alley"

\* the last hide raised the hider's concealment by exactly 1
RaisedByOne ==
  /\ last.before.hiding[last.self] # None
  /\ hiding[last.self] = last.before.hiding[last.self] + 1

\* the conditions of a rise but the one on the other occupants: a room that
\* is not NO_HIDE, a first roll of at most 20 if the room is HARD_TO_HIDE
\* (the roll is drawn in such a room only), and a concealment level that is
\* an integer not above the hider's level
RoomRollAndLevel ==
  /\ room_kind(RoomBefore) # "NO_HIDE"
  /\ room_kind(RoomBefore) # "HARD_TO_HIDE" \/ last.args.roll1 <= 20
  /\ last.before.hiding[last.self] # None
  /\ last.before.hiding[last.self] <= level(last.self)

\* the hide roll, drawn when no occupant blocks the call, is at least 25
HideRollPassed == last.args.roll2 # None /\ last.args.roll2 >= 25

WatchedMsgs ==
  {"You can't hide any better with people in the room.",
   "You can't hide when people are watching you."}

\* the last hide ended at the occupancy check of lines 24-29
BlockedByOccupants ==
  \/ \E t \in WatchedMsgs : Sent(Msg(last.self, t))
  \/ (last.err = "TypeError" /\ OthersBefore(Characters) # {})

\* the last hide got as far as the occupancy check
ReachedOccupancyCheck ==
  /\ room_kind(RoomBefore) # "NO_HIDE"
  /\ room_kind(RoomBefore) # "HARD_TO_HIDE" \/ last.args.roll1 <= 20

\* C24: the occupancy check of hide counts only the other occupants that are
\* not hidden: where every other character in the room is concealed, hide is
\* not stopped by the check.
C24_HiddenOthersDoNotBlock ==
  (/\ IsHide
   /\ ReachedOccupancyCheck
   /\ OthersBefore(Characters) # {}
   /\ \A c \in OthersBefore(Characters) : last.before.hiding[c] > 0) =>
    ~BlockedByOccupants

\* the last search found someone: its events are those of lines 98-102
FoundSomeone == IsSearch /\ Len(last.events) = 4

OtherTiers(key) ==
  <<key \o " is in ultimate health.", key \o " is in incredible health.",
    key \o " is in extraordinary health.", key \o " is in tremendous health.",
    key \o " is in superior condition.", key \o " is in exceptional health.",
    key \o " is in good health.", key \o " looks a little bit dazed.",
    key \o " has some minor wounds.",
    key \o " is suffering from some serious wounds.",
    key \o " is in critical condition.", key \o " is near death.", key \o " is dead.">>

OtherRow(key, msg) == CHOOSE i \in 1 .. Len(OtherTiers(key)) : OtherTiers(key)[i] = msg

\* C26: for every health value the third-person table selects the row the
\* self-perspective table selects, and a hit delivers the third-person
\* message to every occupant of the defender's room but the defender, who
\* receives the self-perspective message only.
C26_SameTierBothTables ==
  /\ probe.done =>
       /\ probe.other1 \in {OtherTiers("c1")[i] : i \in 1 .. 13}
       /\ probe.other2 \in {OtherTiers("c1")[i] : i \in 1 .. 13}
       /\ OtherRow("c1", probe.other1) = TierRow(probe.self1)
       /\ OtherRow("c1", probe.other2) = TierRow(probe.self2)
  /\ IsHit =>
       /\ last.events[3] = Msg(last.self, self_health_msg(health[last.self]))
       /\ last.events[4] =
            Ev("msg_contents", ContentsBefore(RoomBefore) \ {last.self},
               OtherTiers(last.self)[TierRow(last.events[3].text)], 0)
       /\ \A i \in 1 .. Len(last.events) :
            (last.events[i].kind \in {"msg", "msg_contents"} /\ last.self \in last.events[i].to)
              => i \in {1, 3}

C26_Witness ==
  /\ probe.done
  /\ probe.h1 = 1 /\ probe.other1 = "c1 is dead."
  /\ probe.h2 = 351 /\ probe.other2 = "c1 looks a little bit dazed."
  /\ IsHit
  /\ last.events[4].to = (Characters \cup {"o1"}) \ {last.self}
  /\ last.events[4].text = last.self \o " is in exceptional health."

\* C27: there is no dying state between operations: after any call of
\* at_weapon_hit has returned, every character's health is above 0.
C27_NoDyingState == \A c \in Characters : health[c] > 0

DeadMsgsSent ==
  /\ Sent(Msg(last.self, "You are dead."))
  /\ \E i \in 1 .. Len(last.events) :
       /\ last.events[i].kind = "msg_contents"
       /\ last.events[i].text = last.self \o " is dead."

\* C28: a character that a hit leaves at health exactly 1 is reported dead
\* to itself and to the room, yet the death transition is not entered: its
\* health stays 1 and it stays where it was; and every call that enters the
\* death transition reported the dead tier.
C28_DeadAtOneWithoutDeath ==
  IsHit =>
    /\ ClampedResult = 1 =>
         /\ DeadMsgsSent
         /\ DieCalls = 0
         /\ last.err = "none"
         /\ health[last.self] = 1
         /\ location[last.self] = last.before.location[last.self]
    /\ DieCalls > 0 => DeadMsgsSent

C28_Witness ==
  /\ IsHit
  /\ last.before.health[last.self] = 1000 /\ last.args.damage = 999
  /\ health[last.self] = 1
  /\ DieCalls = 0
  /\ DeadMsgsSent
  /\ location[last.self] = "Alley"

\* C29: a character whose concealment is MAX_HIDE or more is revealed by no
\* search, since the discovery roll in 0 .. MAX_HIDE never exceeds its level;
\* a character concealed below MAX_HIDE can be revealed by a search of
\* another character in its room.
C29_MaxHideIsSafe ==
  /\ IsSearch =>
       \A c \in Characters :
         last.before.hiding[c] >= MAX_HIDE => hiding[c] = last.before.hiding[c]
  /\ \A c \in Characters :
       (/\ hiding[c] \in 1 .. (MAX_HIDE - 1)
        /\ \E s \in Characters \ {c} : location[s] = location[c])
         => ENABLED (Search /\ hiding'[c] = 0)

\* the other character searches, with a roll that selects the people
\* branch, the room where the veteran is concealed at MAX_HIDE
C29_Witness ==
  /\ IsSearch
  /\ last.self \in Characters
  /\ last.args.rand >= 40
  /\ \E c \in Characters \ {last.self} :
       /\ last.before.location[c] = RoomBefore
       /\ last.before.hiding[c] = MAX_HIDE
       /\ hiding[c] = MAX_HIDE

\* C30: over hide, reveal and search a concealment changes in two ways only:
\* it rises by exactly 1 through the character's own hide, or it becomes
\* exactly 0 through the character's own reveal or through the search of
\* someone else; it is never negative and never falls to a value other
\* than 0.
C30_ConcealmentSteps ==
  \A c \in Characters :
    /\ hiding[c] = None \/ hiding[c] >= 0
    /\ hiding[c] # last.before.hiding[c] =>
         \/ /\ IsHide /\ last.self = c
            /\ last.before.hiding[c] # None
            /\ hiding[c] = last.before.hiding[c] + 1
         \/ /\ last.op = "reveal" /\ last.self = c
            /\ hiding[c] = 0
         \/ /\ IsSearch /\ last.self # c
            /\ last.before.hiding[c] > 0
            /\ hiding[c] = 0

\* the search of the Mob brings a character from its cap of 3 to 0
C30_Witness ==
  /\ IsSearch
  /\ last.self \in Mobs
  /\ \E c \in Characters : last.before.hiding[c] = 3 /\ hiding[c] = 0

IsGainHealth == last.op = "gain_health"

\* C31: after any sequence of Mob.gain_health calls, with positive or
\* negative amounts, MIN_HEALTH <= health <= max_health; a call invokes
\* mob_death exactly when the health it leaves is <= 0, and otherwise
\* broadcasts the mob's condition to the room without the mob.
C31_MobHealthBounded ==
  /\ mob.MIN_HEALTH <= mob.health /\ mob.health <= mob.max_health
  /\ IsGainHealth =>
       /\ Len(EventsOfKind("mob_death")) = (IF mob.health <= 0 THEN 1 ELSE 0)
       /\ mob.health > 0 <=>
            Sent(Ev("msg_contents", ContentsBefore(RoomBefore) \ {last.self},
                    mob_health_msg(last.self, mob.health), 0))

\* a loss that would take the mob below a negative MIN_HEALTH, while a
\* character stands in its room
C31_Witness ==
  /\ IsGainHealth
  /\ mob.MIN_HEALTH < 0
  /\ last.before.mob.health + last.args.amount < mob.MIN_HEALTH
  /\ mob.health = mob.MIN_HEALTH
  /\ Len(EventsOfKind("mob_death")) = 1
  /\ ContentsBefore(RoomBefore) \cap Characters # {}

IsAdd == last.op = "add"

\* the piles that exist
LivePiles == {p \in Piles : gold[p].holder \in Containers}

\* C33: after any sequence of Gold.add calls, with positive or negative
\* amounts, no pile's amount is negative; a newly created pile holds 5; a
\* pile whose amount comes to 0 is deleted within the same call, so that no
\* pile that exists holds 0.
C33_GoldNeverNegative ==
  /\ \A p \in Piles : gold[p].amount >= 0
  /\ \A p \in LivePiles : gold[p].amount > 0
  /\ last.op = "Gold.at_object_creation" =>
       gold[last.self].amount = 5 /\ last.self \in LivePiles
  /\ IsAdd =>
       /\ last.before.gold[last.self].amount + last.args.amount <= 0
            <=> gold[last.self].holder = "deleted"
       /\ last.self \in LivePiles =>
            gold[last.self].amount
              = last.before.gold[last.self].amount + last.args.amount

\* an add that would take a pile below 0: the pile holds 0 and is deleted
C33_Witness ==
  /\ IsAdd
  /\ last.before.gold[last.self].amount + last.args.amount < 0
  /\ gold[last.self] = DeletedPile

IsGetOrDrop == last.op \in {"at_get", "at_drop"}

\* the container the pile of the last get or drop moved into
MovedInto ==
  IF last.op = "at_get" THEN last.args.who ELSE last.before.location[last.args.who]

\* the piles the container held before the pile moved into it
PilesBefore == {p \in Piles : last.before.gold[p].holder = MovedInto}

RECURSIVE AmountBefore(_)
AmountBefore(piles) ==
  IF piles = {}
  THEN 0
  ELSE LET p == CHOOSE x \in piles : TRUE
       IN  last.before.gold[p].amount + AmountBefore(piles \ {p})

\* C32: when a pile is picked up by, or dropped into, a container that
\* already holds other piles, the container afterwards holds exactly one
\* pile, whose amount is the sum of the amounts the moved pile and the other
\* piles had; the other piles of the merge are deleted and the piles
\* elsewhere are as before.
C32_GoldMerged ==
  (IsGetOrDrop /\ PilesBefore # {}) =>
    LET merged == PilesBefore \cup {last.self}
    IN  /\ \E keeper \in merged :
             /\ existing_gold(gold, MovedInto) = {keeper}
             /\ gold[keeper].amount = AmountBefore(merged)
             /\ \A p \in merged \ {keeper} : gold[p] = DeletedPile
        /\ \A p \in Piles \ merged : gold[p] = last.before.gold[p]

\* a pile dropped into a room that holds two piles: one pile of all three
\* amounts is left, and it is not the pile that was dropped
C32_Witness ==
  /\ last.op = "at_drop"
  /\ Cardinality(PilesBefore) = 2
  /\ \E keeper \in PilesBefore :
       /\ existing_gold(gold, MovedInto) = {keeper}
       /\ gold[keeper].amount = AmountBefore(Piles)
       /\ gold[keeper].amount > 15

\* C34: a Merchant is sticky: at_before_get returns False for it, so no
\* sequence of get attempts moves it out of its room.
C34_MerchantStaysInRoom ==
  /\ shop.holder \in Rooms
  /\ last.op = "at_before_get" => ~at_before_get(last.before.shop, last.args.who)

IsReceive == last.op = "at_object_receive"

\* the source of the last object given was an account with the permission
\* Developer or Admin
GivenByAdmin ==
  /\ last.args.source \in Characters
  /\ last.before.shop.account[last.args.source] \in {"Admin", "Developer"}

\* C35: an object moved into the Merchant from a source that is not an
\* account with the Developer or Admins permission (a source without account
\* or no source included) is deleted and is not in the Merchant's contents;
\* an object given by such an admin is kept there.  The source that exists
\* and is no admin is told so; nothing else is given or deleted.
C35_OnlyAdminsPutOnSale ==
  IsReceive =>
    /\ GivenByAdmin => shop.item_at[last.args.obj] = "merchant"
    /\ ~GivenByAdmin => shop.item_at[last.args.obj] = "deleted"
    /\ Sent(Msg(last.args.source, FreeStuffMsg))
         <=> (~GivenByAdmin /\ last.args.source # "nowhere")
    /\ \A i \in Items \ {last.args.obj} : shop.item_at[i] = last.before.shop.item_at[i]

\* a Builder's object is deleted while the object an Admin gave before is
\* on sale
C35_Witness ==
  /\ IsReceive
  /\ last.args.source \in Characters
  /\ last.before.shop.account[last.args.source] = "Builder"
  /\ shop.item_at[last.args.obj] = "deleted"
  /\ \E i \in Items : shop.item_at[i] = "merchant"

=============================================================================
